---------------------------- MODULE Spec2Model ----------------------------
(***************************************************************************)
(* Presumed-income feature engine (feature_store.fs_engineering            *)
(* .presumed_income_irpf.transformer.PresumedIncomeIrpf) as a state        *)
(* machine.  Each component is modelled with the inputs of one call as     *)
(* state and one action that applies the code to them:                     *)
(*   - the star-rating table       (_get_star_array, _retrieve_stars)      *)
(*   - the status classifier       (_get_irpf_status, apply_regex_series)  *)
(*   - the presumed-income resolver (find_le, _get_presumed_income)        *)
(*   - the aggregation             (set_star_count)                        *)
(*   - the explode step            (_explode_dict_col)                     *)
(* and the pipeline object (execute, export_output) step by step.          *)
(* Python values are encoded as follows.  A str that holds a number is a   *)
(* sequence of one-character strings (<<"-", "1">> is "-1"); a status text *)
(* is a sequence of chunks (see the classifier section); None is the       *)
(* record PyNone and a number n is Num(n), so that a set of candidates can *)
(* hold both; an exception is a record whose field kind names its class.   *)
(***************************************************************************)
EXTENDS Integers, Sequences, FiniteSets, TLC

VARIABLES
    pc,                \* position of the modelled call: "ready" or "done"
    num_declarations,  \* _retrieve_stars: argument
    num_refunds,       \* _retrieve_stars: argument
    stars,             \* _retrieve_stars: outcome record
    text_col,          \* _get_irpf_status: the status-text column df[text_col]
    status,            \* _get_irpf_status: outcome record (the flag columns)
    df_row,            \* _calculate_presumed_income: one row of the aggregate
    presumed_income_dict,  \* the lookup table (self._presumed_income_dict)
    presumed_income,   \* _get_presumed_income: outcome record
    df,                \* set_star_count: the frame pre_processing_pipeline returns
    gp_estr,           \* set_star_count: the aggregate frame it returns
    base_df,           \* _explode_dict_col: the caller's frame (its argument)
    exploded,          \* _explode_dict_col: the frame it returns
    _base_dataframe,   \* execute: the inputs loaded by the most recent run
    execute_df,        \* execute: its local df, or None outside a run
    feature_frame,     \* self.feature_frame
    exported,          \* the tables handed to self._reader.export, in order
    runs,              \* the number of execute calls started
    outcome            \* how the last call on the object ended

vars == <<pc, num_declarations, num_refunds, stars, text_col, status,
          df_row, presumed_income_dict, presumed_income, df, gp_estr,
          base_df, exploded,
          _base_dataframe, execute_df, feature_frame, exported, runs, outcome>>

(***************************************************************************)
(* Bounds of the model.                                                    *)
(***************************************************************************)
\* declaration and refund counts passed to the rating range over
\* -MaxCount .. MaxCount (beyond the 16 rows of the table on both sides)
MaxCount == 18
\* rows of the status-text column handed to the classifier: 1 .. MaxRows
MaxRows == 2
\* the brand counts of an aggregate row range over 0 .. MaxBrandCount
MaxBrandCount == 8
MaxRuns == 2         \* execute calls on one pipeline object
MaxExports == 2      \* tables handed to the export collaborator

(***************************************************************************)
(* Python sequence indexing (list.__getitem__, numpy.ndarray.__getitem__   *)
(* with an int): positions 0..len-1, negative positions -len..-1 count     *)
(* from the end, anything else raises IndexError.                          *)
(***************************************************************************)
PyGetItem(seq, i) ==
    IF 0 <= i /\ i < Len(seq) THEN [ok |-> TRUE, v |-> seq[i + 1]]
    ELSE IF -Len(seq) <= i /\ i < 0 THEN [ok |-> TRUE, v |-> seq[Len(seq) + i + 1]]
    ELSE [ok |-> FALSE, v |-> <<>>]

(***************************************************************************)
(* StarRatingTable                                                         *)
(***************************************************************************)
\* base_arr with one cell of row 4 lowered: a typing slip in the table
base_arr_dip ==
    << <<0>>,
       <<1, 1>>,
       <<1, 1, 1>>,
       <<1, 1, 1, 1>>,
       <<1, 1, 1, 2, 1>>,
       <<1, 1, 2, 2, 3, 3>>,
       <<1, 2, 2, 3, 3, 4, 4>>,
       <<2, 2, 3, 3, 4, 4, 4, 5>>,
       <<2, 3, 3, 4, 4, 4, 5, 5, 5>>,
       <<2, 3, 4, 4, 4, 5, 5, 5, 5, 5>>,
       <<3, 4, 4, 4, 5, 5, 5, 5, 5, 5, 5>>,
       <<3, 4, 4, 5, 5, 5, 5, 5, 5, 5, 5, 5>>,
       <<3, 4, 5, 5, 5, 5, 5, 5, 5, 5, 5, 5, 5>>,
       <<4, 5, 5, 5, 5, 5, 5, 5, 5, 5, 5, 5, 5, 5>>,
       <<4, 5, 5, 5, 5, 5, 5, 5, 5, 5, 5, 5, 5, 5, 5>>,
       <<4, 5, 5, 5, 5, 5, 5, 5, 5, 5, 5, 5, 5, 5, 5, 5>> >>

base_arr ==
    << <<0>>,
       <<1, 1>>,
       <<1, 1, 1>>,
       <<1, 1, 1, 1>>,
       <<1, 1, 1, 2, 2>>,
       <<1, 1, 2, 2, 3, 3>>,
       <<1, 2, 2, 3, 3, 4, 4>>,
       <<2, 2, 3, 3, 4, 4, 4, 5>>,
       <<2, 3, 3, 4, 4, 4, 5, 5, 5>>,
       <<2, 3, 4, 4, 4, 5, 5, 5, 5, 5>>,
       <<3, 4, 4, 4, 5, 5, 5, 5, 5, 5, 5>>,
       <<3, 4, 4, 5, 5, 5, 5, 5, 5, 5, 5, 5>>,
       <<3, 4, 5, 5, 5, 5, 5, 5, 5, 5, 5, 5, 5>>,
       <<4, 5, 5, 5, 5, 5, 5, 5, 5, 5, 5, 5, 5, 5>>,
       <<4, 5, 5, 5, 5, 5, 5, 5, 5, 5, 5, 5, 5, 5, 5>>,
       <<4, 5, 5, 5, 5, 5, 5, 5, 5, 5, 5, 5, 5, 5, 5, 5>> >>

\* np.array([len(arr) for arr in base_arr]).max()
max_len ==
    CHOOSE n \in {Len(base_arr[i]) : i \in DOMAIN base_arr} :
        \A i \in DOMAIN base_arr : Len(base_arr[i]) <= n

default_value == -1

\* np.pad(arr, (0, width - len(arr)), mode='constant', constant_values=fill)
np_pad(arr, width, fill) ==
    [j \in 1..width |-> IF j <= Len(arr) THEN arr[j] ELSE fill]

get_star_array ==
    [i \in DOMAIN base_arr |-> np_pad(base_arr[i], max_len, default_value)]

\* _retrieve_stars with the saturation test off by one (> 16 for >= 16)
retrieve_stars_gt16(d, r, star_arr) ==
    IF d > 16
    THEN [stars |-> 5, lookup |-> "none"]
    ELSE LET row == PyGetItem(star_arr, d) IN
         IF ~row.ok
         THEN [stars |-> -1, lookup |-> "IndexError"]
         ELSE LET cell == PyGetItem(row.v, r) IN
              IF ~cell.ok
              THEN [stars |-> -1, lookup |-> "IndexError"]
              ELSE [stars |-> cell.v, lookup |-> "hit"]

\* the try/except IndexError/else of _retrieve_stars; `lookup` records what
\* happened to the table: "none" (not indexed), "hit" or "IndexError"
retrieve_stars(d, r, star_arr) ==
    IF d >= 16
    THEN [stars |-> 5, lookup |-> "none"]
    ELSE LET row == PyGetItem(star_arr, d) IN
         IF ~row.ok
         THEN [stars |-> -1, lookup |-> "IndexError"]
         ELSE LET cell == PyGetItem(row.v, r) IN
              IF ~cell.ok
              THEN [stars |-> -1, lookup |-> "IndexError"]
              ELSE [stars |-> cell.v, lookup |-> "hit"]

(***************************************************************************)
(* StatusClassifier                                                        *)
(*                                                                         *)
(* A status text is a sequence of chunks.  A chunk is a run of characters  *)
(* of one class that the patterns below never split: one whitespace        *)
(* character (" " or "\n"), one punctuation character (".", ",", ":") or   *)
(* a run of word characters ("banco").  Adjacent word chunks form one      *)
(* word (<<"dive", "rgente">> is "divergente"), so \b holds between two    *)
(* chunks only when exactly one of them is a word chunk.  A cell of the    *)
(* column is [isna |-> TRUE, s |-> <<>>] (NaN) or [isna |-> FALSE, s |->   *)
(* text].                                                                  *)
(***************************************************************************)
IsSpace(c) == c \in {" ", "\n"}
IsPunct(c) == c \in {".", ",", ":"}
IsWord(c) == ~IsSpace(c) /\ ~IsPunct(c)

\* re.IGNORECASE: the chunks of the model that are not lower case, with their
\* lower-case form
UpperForms == [c \in {"NÃO", "Banco"} |-> IF c = "NÃO" THEN "não" ELSE "banco"]
Lower(c) == IF c \in DOMAIN UpperForms THEN UpperForms[c] ELSE c

\* elements of a compiled pattern
L(w) == [k |-> "lit", w |-> w]       \* the literal chunk w
LOpt(w) == [k |-> "lit?", w |-> w]   \* [.]? and [,]?
S == [k |-> "s", w |-> ""]           \* \s
SOpt == [k |-> "s?", w |-> ""]       \* \s?
SStar == [k |-> "s*", w |-> ""]      \* \s*
B == [k |-> "b", w |-> ""]           \* \b
Bol == [k |-> "^", w |-> ""]         \* ^
Eol == [k |-> "$", w |-> ""]         \* $
DotStar == [k |-> ".*", w |-> ""]    \* .*
\* word1\sword2\s...\swordn
Words(ws) == [j \in 1..(2 * Len(ws) - 1) |-> IF j % 2 = 1 THEN L(ws[(j + 1) \div 2]) ELSE S]

\* \b at position i (between chunk i and chunk i+1) of text t
WordBoundary(t, i) ==
    (i > 0 /\ IsWord(t[i])) # (i < Len(t) /\ IsWord(t[i + 1]))

\* the positions j >= i with every chunk of t[i+1..j] satisfying the class
\* (whitespace for \s*, anything but a newline for .*)
Runs(t, i, spaces) ==
    {j \in i..Len(t) : \A m \in (i + 1)..j : IF spaces THEN IsSpace(t[m]) ELSE t[m] # "\n"}

\* the end positions of the matches of pat[k..] that start at position i of t
RECURSIVE Ends(_, _, _, _)
Ends(pat, k, t, i) ==
    IF k > Len(pat) THEN {i}
    ELSE LET e == pat[k]
             n == Len(t)
             step == Ends(pat, k + 1, t, i + 1)
             skip == Ends(pat, k + 1, t, i)
         IN CASE e.k = "lit" -> IF i < n /\ Lower(t[i + 1]) = e.w THEN step ELSE {}
              [] e.k = "lit?" -> skip \cup (IF i < n /\ Lower(t[i + 1]) = e.w THEN step ELSE {})
              [] e.k = "s" -> IF i < n /\ IsSpace(t[i + 1]) THEN step ELSE {}
              [] e.k = "s?" -> skip \cup (IF i < n /\ IsSpace(t[i + 1]) THEN step ELSE {})
              [] e.k = "s*" -> UNION {Ends(pat, k + 1, t, j) : j \in Runs(t, i, TRUE)}
              [] e.k = ".*" -> UNION {Ends(pat, k + 1, t, j) : j \in Runs(t, i, FALSE)}
              [] e.k = "b" -> IF WordBoundary(t, i) THEN skip ELSE {}
              [] e.k = "^" -> IF i = 0 THEN skip ELSE {}
              [] e.k = "$" -> IF i = n \/ (i = n - 1 /\ t[n] = "\n") THEN skip ELSE {}

\* regex.search(text) is not None, for a pattern that is a set of alternatives
re_search(regex, t) ==
    \E alt \in regex : \E i \in 0..Len(t) : Ends(alt, 1, t, i) # {}

\* regex_not_consulted without its first alternative ^\s*$
regex_not_consulted_no_blank ==
    { <<B>> \o Words(<<"data", "de", "nascimento", "informada">>) \o <<B, DotStar, B>>
          \o Words(<<"está", "dive">>),
      <<B>> \o Words(<<"não", "coletado">>),
      <<B>> \o Words(<<"ocorreu", "uma", "inconsistência">>) \o <<SOpt, L(".")>> }

regex_not_consulted ==
    { <<Bol, SStar, Eol>>,
      <<B>> \o Words(<<"data", "de", "nascimento", "informada">>) \o <<B, DotStar, B>>
          \o Words(<<"está", "dive">>),
      <<B>> \o Words(<<"não", "coletado">>),
      <<B>> \o Words(<<"ocorreu", "uma", "inconsistência">>) \o <<SOpt, L(".")>> }

regex_not_declared ==
    { <<B>> \o Words(<<"consta", "apresentação", "de", "declaração", "anual", "de", "isento">>) \o <<B>>,
      <<B>> \o Words(<<"apresentação", "da", "declaração", "como", "isento">>) \o <<B>>,
      <<B>> \o Words(<<"declaração", "consta", "como", "isento">>) \o <<B>>,
      <<B>> \o Words(<<"declaração", "consta", "como", "pedido", "de", "regularização">>) \o <<B>>,
      <<B>> \o Words(<<"sua", "declaração", "não", "consta", "na", "base", "de", "dados">>) \o <<B>>,
      <<B>> \o Words(<<"ainda", "não", "está", "na", "base">>) \o <<B>> }

regex_tax_refund ==
    { <<B>> \o Words(<<"situação", "da", "restituição">>) \o <<L(":"), S, L("creditada"), B>>,
      <<B>> \o Words(<<"somente", "será", "permitida", "por", "meio", "do", "código", "de", "acesso">>) \o <<B>>,
      <<B>> \o Words(<<"aguardando", "reagendamento", "pelo", "contribuinte">>) \o <<LOpt(".")>>,
      <<B>> \o Words(<<"devolvida", "à", "receita", "federal">>) \o <<LOpt(","), S>>
          \o Words(<<"em", "razão", "do", "não", "resgate">>) \o <<B>>,
      <<B>> \o Words(<<"enviada", "para", "crédito", "no", "banco">>) \o <<B>>,
      <<B>> \o Words(<<"reagendada", "para", "crédito", "no", "banco">>) \o <<B>>,
      <<B>> \o Words(<<"dados", "da", "liberação", "de", "sua", "restituição">>) \o <<B>>,
      <<B>> \o Words(<<"declaração", "está", "na", "base", "de", "dados">>) \o <<B>>,
      <<B>> \o Words(<<"está", "na", "base">>) \o <<L(","), S>>
          \o Words(<<"utilize", "o", "extrato">>) \o <<B>>,
      <<B>> \o Words(<<"declaração", "já", "foi", "processada">>) \o <<LOpt("."), Eol>>,
      <<B, L("restituição"), L(":"), S>>
          \o Words(<<"aguardando", "devolução", "pelo", "banco">>) \o <<B>> }

\* Series.str.contains(regex) on one cell of an object column: True, False,
\* or NaN for a missing value
str_contains(cell, regex) ==
    IF cell.isna THEN "NaN"
    ELSE IF re_search(regex, cell.s) THEN "True" ELSE "False"

\* np.where(cond, 1, 0) on one element: a NaN in an object array is truthy
np_where(cond) == IF cond # "False" THEN 1 ELSE 0

\* contains & notna on one element: the NaN of an object column counts as False
and_notna(contains, cell) ==
    IF contains = "True" /\ ~cell.isna THEN "True" ELSE "False"

\* apply_regex_series that ignores handle_nan and always coerces NaN to 0
apply_regex_cell_nan_safe(cell, regex, handle_nan) ==
    np_where(and_notna(str_contains(cell, regex), cell))

\* one element of apply_regex_series(series, regex, handle_nan)
apply_regex_cell(cell, regex, handle_nan) ==
    IF handle_nan
    THEN np_where(and_notna(str_contains(cell, regex), cell))
    ELSE np_where(str_contains(cell, regex))

\* the .str accessor accepts a column of object dtype and raises
\* AttributeError on a float64 column (a column whose values are all NaN)
apply_regex_series(series, regex, handle_nan) ==
    IF series.dtype # "object"
    THEN [kind |-> "AttributeError", values |-> <<>>]
    ELSE [kind |-> "return",
          values |-> [i \in DOMAIN series.values |->
                          apply_regex_cell(series.values[i], regex, handle_nan)]]

col_list == {"irpf_extraction_error", "irpf_not_declared", "irpf_tax_refund"}

\* the derived flag computed from two of the three columns only
tax_to_pay_two_cols(row) ==
    IF \A c \in {"irpf_extraction_error", "irpf_not_declared"} : row[c] # 1 THEN 1 ELSE 0

\* lambda x: 1 not in x.values, .astype(int)
tax_to_pay(row) == IF \A c \in col_list : row[c] # 1 THEN 1 ELSE 0

\* _get_irpf_status: the four flag columns, row by row, or the exception of
\* the first apply_regex_series call
get_irpf_status(series) ==
    LET err == apply_regex_series(series, regex_not_consulted, FALSE)
        ndc == apply_regex_series(series, regex_not_declared, TRUE)
        ref == apply_regex_series(series, regex_tax_refund, TRUE)
        three(i) == [irpf_extraction_error |-> err.values[i],
                     irpf_not_declared |-> ndc.values[i],
                     irpf_tax_refund |-> ref.values[i]]
    IN IF err.kind # "return"
       THEN [kind |-> err.kind, rows |-> <<>>]
       ELSE [kind |-> "return",
             rows |-> [i \in DOMAIN series.values |->
                          [irpf_extraction_error |-> three(i).irpf_extraction_error,
                           irpf_not_declared |-> three(i).irpf_not_declared,
                           irpf_tax_refund |-> three(i).irpf_tax_refund,
                           irpf_tax_to_pay |-> tax_to_pay(three(i))]]]

(***************************************************************************)
(* Inputs of the classifier: a phrase, optionally glued to a preceding     *)
(* word and optionally followed by a newline.                              *)
(***************************************************************************)
Phrases ==
    { <<>>,
      <<" ">>,
      <<"NÃO", " ", "coletado">>,
      <<"reagendada", " ", "para", " ", "crédito", " ", "no", " ", "Banco">>,
      <<"ainda", " ", "não", " ", "está", " ", "na", " ", "base">>,
      <<"ainda", " ", "não", " ", "está", " ", "na", " ", "base",
        ",", " ", "utilize", " ", "o", " ", "extrato">> }

Texts == {h \o p \o t : h \in {<<>>, <<"x">>}, p \in Phrases, t \in {<<>>, <<"\n">>}}

NaN == [isna |-> TRUE, s |-> <<>>]
Cells == {NaN} \cup {[isna |-> FALSE, s |-> t] : t \in Texts}

\* a pandas column: float64 when every value is NaN, object otherwise; a
\* column of NaN only may also be an object column
Columns ==
    UNION {{[dtype |-> "object", values |-> v] : v \in [1..n -> Cells]} : n \in 1..MaxRows}
    \cup {[dtype |-> "float64", values |-> [i \in 1..n |-> NaN]] : n \in 1..MaxRows}

NoColumn == [dtype |-> "unset", values |-> <<>>]
NoStatus == [kind |-> "unset", rows |-> <<>>]

(***************************************************************************)
(* PresumedIncomeResolver                                                  *)
(***************************************************************************)
Digits == <<"0", "1", "2", "3", "4", "5", "6", "7", "8", "9">>

\* str(n) of an int
RECURSIVE py_str(_)
py_str(n) ==
    IF n < 0 THEN <<"-">> \o py_str(-n)
    ELSE IF n < 10 THEN <<Digits[n + 1]>>
    ELSE py_str(n \div 10) \o <<Digits[(n % 10) + 1]>>

DigitValue(c) == CHOOSE v \in 0..9 : Digits[v + 1] = c
IsDigits(s) == Len(s) > 0 /\ \A i \in DOMAIN s : \E v \in 0..9 : Digits[v + 1] = s[i]

RECURSIVE DigitsValue(_)
DigitsValue(s) ==
    IF Len(s) = 0 THEN 0
    ELSE 10 * DigitsValue(SubSeq(s, 1, Len(s) - 1)) + DigitValue(s[Len(s)])

\* int(s) of a str: an optional sign and decimal digits, ValueError otherwise
py_int(s) ==
    IF Len(s) > 0 /\ s[1] = "-" /\ IsDigits(Tail(s))
    THEN [ok |-> TRUE, v |-> -DigitsValue(Tail(s))]
    ELSE IF IsDigits(s) THEN [ok |-> TRUE, v |-> DigitsValue(s)]
    ELSE [ok |-> FALSE, v |-> 0]

PyNone == [t |-> "None", v |-> 0]
Num(n) == [t |-> "num", v |-> n]
EmptyDict == <<>>

\* dict.get(key, default)
dict_get(d, key, default) == IF key \in DOMAIN d THEN d[key] ELSE default

\* bisect.bisect_right(ls, x, lo, hi): the binary search of the standard library
RECURSIVE bisect_right(_, _, _, _)
bisect_right(ls, x, lo, hi) ==
    IF lo < hi
    THEN LET mid == (lo + hi) \div 2
         IN IF x < ls[mid + 1]
            THEN bisect_right(ls, x, lo, mid)
            ELSE bisect_right(ls, x, mid + 1, hi)
    ELSE lo

\* find_le with bisect_left for bisect_right: an exact match is passed over
find_le_bisect_left(ls, x) ==
    LET i == Cardinality({j \in DOMAIN ls : ls[j] < x})
    IN IF i # 0
       THEN [kind |-> "return", v |-> ls[i]]
       ELSE [kind |-> "ValueError", v |-> 0]

\* find_le that returns the first element as a default instead of raising
find_le_default(ls, x) ==
    LET i == bisect_right(ls, x, 0, Len(ls))
    IN IF i # 0
       THEN [kind |-> "return", v |-> ls[i]]
       ELSE [kind |-> "return", v |-> IF Len(ls) > 0 THEN ls[1] ELSE 0]

find_le(ls, x) ==
    LET i == bisect_right(ls, x, 0, Len(ls))
    IN IF i # 0
       THEN [kind |-> "return", v |-> ls[i]]
       ELSE [kind |-> "ValueError", v |-> 0]

\* min for max
py_max_min(set) ==
    IF Cardinality(set) = 1
    THEN [kind |-> "return", value |-> CHOOSE c \in set : TRUE]
    ELSE IF set = {}
    THEN [kind |-> "ValueError", value |-> PyNone]
    ELSE IF \E c \in set : c.t = "None"
    THEN [kind |-> "TypeError", value |-> PyNone]
    ELSE [kind |-> "return",
          value |-> CHOOSE c \in set : \A e \in set : c.v <= e.v]

\* max(presumed_income_set): comparing None with anything raises TypeError;
\* a set of one element is returned without a comparison
py_max(set) ==
    IF Cardinality(set) = 1
    THEN [kind |-> "return", value |-> CHOOSE c \in set : TRUE]
    ELSE IF set = {}
    THEN [kind |-> "ValueError", value |-> PyNone]
    ELSE IF \E c \in set : c.t = "None"
    THEN [kind |-> "TypeError", value |-> PyNone]
    ELSE [kind |-> "return",
          value |-> CHOOSE c \in set : \A e \in set : e.v <= c.v]

\* the clamp with the threshold off by one (> 8 for > 7)
value_bucket_gt8(value) == IF py_int(value).v > 8 THEN <<"7">> ELSE value

\* if int(value) > 7: value = '7'
value_bucket(value) == IF py_int(value).v > 7 THEN <<"7">> ELSE value

Failure(kind, year_d, lookups, set) ==
    [kind |-> kind, value |-> PyNone, year_d |-> year_d,
     lookups |-> lookups, candidates |-> set]

\* the loop `for key, value in irpf_dict.items()` from item i on; irpf_dict
\* is the sequence of its (key, value) items in insertion order; `lookups`
\* collects the (brand, bucket) pairs looked up so far
RECURSIVE income_loop(_, _, _, _, _, _)
income_loop(items, i, year_d, star_dict, lookups, set) ==
    IF i > Len(items)
    THEN [kind |-> "next", lookups |-> lookups, candidates |-> set]
    ELSE LET key == items[i][1]
             parsed == py_int(items[i][2])
             value == value_bucket(items[i][2])
             looked == Append(lookups, [brand |-> key, bucket |-> value])
         IN IF ~parsed.ok
            THEN [kind |-> "ValueError", lookups |-> lookups, candidates |-> set]
            ELSE IF year_d \notin DOMAIN star_dict \/ key \notin DOMAIN star_dict[year_d]
            THEN [kind |-> "AttributeError", lookups |-> lookups, candidates |-> set]
            ELSE income_loop(items, i + 1, year_d, star_dict, looked,
                             set \cup {dict_get(star_dict[year_d][key], value, PyNone)})

\* irpf_dict.get('ESTR')
estr_of(items) ==
    LET at == {i \in DOMAIN items : items[i][1] = "ESTR"}
    IN IF at = {} THEN [ok |-> FALSE, v |-> 0] ELSE py_int(items[CHOOSE i \in at : TRUE][2])

\* _get_presumed_income with the self-declaration test off by one (>= 0 for > 0)
get_presumed_income_ge0(year, irpf_dict, branch_pl, star_dict, year_list) ==
    LET le == find_le(year_list, year)
        year_d == py_str(le.v)
        loop == income_loop(irpf_dict, 1, year_d, star_dict, <<>>, {})
        estr == estr_of(irpf_dict)
        declared_branch_incm ==
            dict_get(dict_get(dict_get(star_dict, year_d, EmptyDict),
                              branch_pl, EmptyDict), <<"1">>, Num(0))
        presumed_income_set ==
            IF estr.v >= 0
            THEN loop.candidates \cup {declared_branch_incm}
            ELSE loop.candidates
        result == py_max(presumed_income_set)
    IN IF le.kind # "return"
       THEN Failure(le.kind, <<>>, <<>>, {})
       ELSE IF loop.kind # "next"
       THEN Failure(loop.kind, year_d, loop.lookups, loop.candidates)
       ELSE IF ~estr.ok
       THEN Failure("TypeError", year_d, loop.lookups, loop.candidates)
       ELSE [kind |-> result.kind, value |-> result.value, year_d |-> year_d,
             lookups |-> loop.lookups, candidates |-> presumed_income_set]

get_presumed_income(year, irpf_dict, branch_pl, star_dict, year_list) ==
    LET le == find_le(year_list, year)
        year_d == py_str(le.v)
        loop == income_loop(irpf_dict, 1, year_d, star_dict, <<>>, {})
        estr == estr_of(irpf_dict)
        declared_branch_incm ==
            dict_get(dict_get(dict_get(star_dict, year_d, EmptyDict),
                              branch_pl, EmptyDict), <<"1">>, Num(0))
        presumed_income_set ==
            IF estr.v > 0
            THEN loop.candidates \cup {declared_branch_incm}
            ELSE loop.candidates
        result == py_max(presumed_income_set)
    IN IF le.kind # "return"
       THEN Failure(le.kind, <<>>, <<>>, {})
       ELSE IF loop.kind # "next"
       THEN Failure(loop.kind, year_d, loop.lookups, loop.candidates)
       ELSE IF ~estr.ok
       THEN Failure("TypeError", year_d, loop.lookups, loop.candidates)
       ELSE [kind |-> result.kind, value |-> result.value, year_d |-> year_d,
             lookups |-> loop.lookups, candidates |-> presumed_income_set]

\* list.sort() of a list of distinct ints, given as the set of its elements
RECURSIVE sorted(_)
sorted(set) ==
    IF set = {} THEN <<>>
    ELSE LET least == CHOOSE a \in set : \A b \in set : a <= b
         IN <<least>> \o sorted(set \ {least})

branch_codes == <<"ESTR", "PERS", "STIL", "PRIM", "OUTR", "HSBC", "VANG", "UNIC", "ESPA", "PRIV">>

\* one row of _calculate_presumed_income: the year list of the table, the
\* dict of str(count) per brand, and the call of _get_presumed_income
calculate_presumed_income(x, income_dict) ==
    LET year_list == sorted({py_int(k).v : k \in DOMAIN income_dict})
        irpf_dict == [j \in DOMAIN branch_codes |->
                          <<branch_codes[j], py_str(x[branch_codes[j]])>>]
    IN get_presumed_income(x.year, irpf_dict, x.branch_code_pl, income_dict, year_list)

(***************************************************************************)
(* Inputs of the resolver: lookup tables (presumed_income_dict.json is     *)
(* data, any table is an input) and aggregate rows.                        *)
(***************************************************************************)
BrandIndex(b) == CHOOSE j \in DOMAIN branch_codes : branch_codes[j] = b

\* an income for every year, brand and bucket, larger for larger buckets
Income(y, b, k) == 100 * k * (1 + (BrandIndex(b) % 3)) + 10 * BrandIndex(b) + (y - 2010)

AllBrands == {branch_codes[j] : j \in DOMAIN branch_codes}

\* which brands and buckets a table holds
TableShapes == {"full", "no_HSBC", "no_bucket_7", "no_buckets", "no_PERS_1"}
BrandsOf(shape) == IF shape = "no_HSBC" THEN AllBrands \ {"HSBC"} ELSE AllBrands
BucketsOf(shape) ==
    IF shape = "no_buckets" THEN {}
    ELSE IF shape = "no_bucket_7" THEN 0..6 ELSE 0..7

\* the buckets a table lacks for one brand only
HolesOf(shape, b) == IF shape = "no_PERS_1" /\ b = "PERS" THEN {1} ELSE {}

Table(years, shape) ==
    [yk \in {py_str(y) : y \in years} |->
        [b \in BrandsOf(shape) |->
            [bk \in {py_str(k) : k \in BucketsOf(shape) \ HolesOf(shape, b)} |->
                Num(Income(py_int(yk).v, b, py_int(bk).v))]]]

YearKeySets == {{}, {2018, 2020}, {2016, 2018, 2020}}
Tables == {Table(ys, sh) : ys \in YearKeySets, sh \in TableShapes}

QueryYears == {2017, 2018, 2019, 2021}
\* branch_code_pl: a brand of the table, NaN (unresolved join) or a code the
\* table does not hold
DeclaredBranches == {"PERS", "NaN", "XXXX"}
StarValues == -1..5

\* the counts of HSBC and PRIV vary; the other brand counts are 0
AggregateRows ==
    {[year |-> y, ESTR |-> e, PERS |-> 0, STIL |-> 0, PRIM |-> 0, OUTR |-> 0,
      HSBC |-> c[1], VANG |-> 0, UNIC |-> 0, ESPA |-> 0, PRIV |-> c[2],
      branch_code_pl |-> bp] :
        y \in QueryYears, e \in StarValues,
        c \in (0..MaxBrandCount) \X (0..MaxBrandCount), bp \in DeclaredBranches}

NoRow == [year |-> 0]
NoTable == <<>>
NoIncome == Failure("unset", <<>>, <<>>, {})

(***************************************************************************)
(* The aggregation: set_star_count over the frame of classified rows.      *)
(* A frame is a sequence of rows (records); cpf is a number, time_stamp a  *)
(* date written yyyymmdd, a null value is the string "NaN".                *)
(***************************************************************************)
group_keys == <<"cpf", "time_stamp">>

KeyOf(r) == <<r.cpf, r.time_stamp>>

KeyLess(a, b) == a[1] < b[1] \/ (a[1] = b[1] /\ a[2] < b[2])

\* groupby(['cpf', 'time_stamp']): the distinct keys, in sorted order
RECURSIVE groupby(_)
groupby(keys) ==
    IF keys = {} THEN <<>>
    ELSE LET k == CHOOSE a \in keys : \A b \in keys : a = b \/ KeyLess(a, b)
         IN <<k>> \o groupby(keys \ {k})

RowsOf(frame, key) == SelectSeq(frame, LAMBDA r : KeyOf(r) = key)

\* agg 'nunique' in the place of 'count'
agg_count_nunique(rows, col) == Cardinality({rows[i][col] : i \in DOMAIN rows} \ {"NaN"})

\* agg 'count': the cells of the column that are not null
agg_count(rows, col) == Len(SelectSeq(rows, LAMBDA r : r[col] # "NaN"))

\* agg 'sum' of a numeric column
RECURSIVE agg_sum(_, _)
agg_sum(rows, col) ==
    IF rows = <<>> THEN 0 ELSE Head(rows)[col] + agg_sum(Tail(rows), col)

\* _set_star_number with the two arrays zipped in the other order
set_star_number_swapped(d, r) == retrieve_stars(r, d, get_star_array).stars

set_star_number(d, r) == retrieve_stars(d, r, get_star_array).stars

\* the categories of the branch_code column
branch_categories == <<"PERS", "STIL", "PRIM", "OUTR", "HSBC", "VANG", "UNIC", "ESPA", "PRIV">>

\* indicators that are set by any non-null value
get_dummies_any(r, b) == IF r.branch_code = "NaN" THEN 0 ELSE 1

\* get_dummies over the categorical column: one indicator per category;
\* a value outside the categories is null and sets no indicator
get_dummies(r, b) == IF r.branch_code = b THEN 1 ELSE 0

\* gp_branch: per group, the sum of each indicator column
gp_branch(rows) ==
    [b \in {branch_categories[j] : j \in DOMAIN branch_categories} |->
        agg_sum([i \in DOMAIN rows |-> [n |-> get_dummies(rows[i], b)]], "n")]

\* time_stamp.dt.year
dt_year(ts) == ts \div 10000

\* drop_duplicates(keep='first')
RECURSIVE drop_duplicates(_)
drop_duplicates(seq) ==
    IF seq = <<>> THEN <<>>
    ELSE LET init == drop_duplicates(SubSeq(seq, 1, Len(seq) - 1))
             last == seq[Len(seq)]
         IN IF \E j \in 1..(Len(seq) - 1) : seq[j] = last THEN init ELSE Append(init, last)

\* left merge on the group key: one output row per matching right row, in
\* the order of the right frame; a left row without a match is kept with
\* a null in the joined column
RECURSIVE merge_left(_, _)
merge_left(left, right) ==
    IF left = <<>> THEN <<>>
    ELSE LET l == Head(left)
             matches == SelectSeq(right, LAMBDA x : KeyOf(x) = KeyOf(l))
             joined ==
                 IF matches = <<>>
                 THEN <<l @@ [branch_code_pl |-> "NaN"]>>
                 ELSE [i \in DOMAIN matches |->
                          l @@ [branch_code_pl |-> matches[i].branch_code_pl]]
         IN joined \o merge_left(Tail(left), right)

set_star_count(frame) ==
    LET keys == groupby({KeyOf(frame[i]) : i \in DOMAIN frame})
        estr == [g \in DOMAIN keys |->
                    LET rows == RowsOf(frame, keys[g])
                        number_declaration == agg_count(rows, "tax_report_data")
                        number_tax_refund == agg_sum(rows, "irpf_tax_refund")
                    IN [cpf |-> keys[g][1],
                        time_stamp |-> keys[g][2],
                        number_declaration |-> number_declaration,
                        number_tax_refund |-> number_tax_refund,
                        ESTR |-> set_star_number(number_declaration, number_tax_refund),
                        year |-> dt_year(keys[g][2])]
                       @@ gp_branch(rows)]
        declared == drop_duplicates(
                        [i \in DOMAIN frame |->
                            [cpf |-> frame[i].cpf, time_stamp |-> frame[i].time_stamp,
                             branch_code_pl |-> frame[i].branch_code_pl]])
    IN merge_left(estr, declared)

\* ---- bounded inputs: the frames pre_processing_pipeline can return
GroupKeys == {<<11, 20200101>>, <<11, 20190615>>, <<22, 20200101>>}

RefundText == <<"reagendada", " ", "para", " ", "crédito", " ", "no", " ", "banco">>

AggregateCells == {NaN, [isna |-> FALSE, s |-> <<>>], [isna |-> FALSE, s |-> RefundText]}

BranchCodes == {"HSBC", "NaN", "XXXX"}

DeclaredBranchCodes == {"PERS", "HSBC"}

\* a row of the frame: its flags are the classification of its status text
ClassifiedRow(key, cell, bc, bpl) ==
    LET flags == get_irpf_status([dtype |-> "object", values |-> <<cell>>]).rows[1]
    IN [cpf |-> key[1], time_stamp |-> key[2],
        tax_report_data |-> "payload",
        full_status_text |-> cell,
        branch_code |-> bc, branch_code_pl |-> bpl] @@ flags

ClassifiedRows ==
    {ClassifiedRow(k, c, bc, bpl) :
        k \in GroupKeys, c \in AggregateCells, bc \in BranchCodes, bpl \in DeclaredBranchCodes}

\* a status column that is all null is not an object column and stops
\* _get_irpf_status, so a frame has at least one text
Frames ==
    {f \in UNION {[1..n -> ClassifiedRows] : n \in 1..MaxRows} :
        \E i \in DOMAIN f : ~f[i].full_status_text.isna}

NoFrame == <<>>
NoAggregate == <<[cpf |-> 0]>>

aggregateVars == <<df, gp_estr>>
IdleAggregate == df = NoFrame /\ gp_estr = NoAggregate

(***************************************************************************)
(* The explode step: _explode_dict_col.  A dict is a sequence of           *)
(* <<key, value>> pairs in insertion order; a column is a sequence of      *)
(* cells; an exploded column is a sequence of [label, v] entries whose     *)
(* label is the index label of the row the entry came from.                *)
(***************************************************************************)
dict_keys(d) == [j \in DOMAIN d |-> d[j][1]]

dict_values(d) == [j \in DOMAIN d |-> d[j][2]]

\* the columns of the frame handed to _explode_dict_col that hold scalars
scalar_cols == {"person_id"}

RECURSIVE Flatten(_)
Flatten(seqs) == IF seqs = <<>> THEN <<>> ELSE Head(seqs) \o Flatten(Tail(seqs))

\* pd.Series.explode: a list-like cell gives one entry per element, under
\* the label of its row; an empty one gives a single null; a scalar is kept
Series_explode(col) ==
    Flatten([i \in DOMAIN col |->
                IF col[i].listlike
                THEN IF col[i].v = <<>>
                     THEN <<[label |-> i, v |-> "NaN"]>>
                     ELSE [j \in DOMAIN col[i].v |-> [label |-> i, v |-> col[i].v[j]]]
                ELSE <<[label |-> i, v |-> col[i].v]>>])

Occurrences(series, label) == SelectSeq(series, LAMBDA e : e.label = label)

\* df.apply(pd.Series.explode): the exploded columns are put side by side
\* on the union of their indexes; a column with one entry for a label is
\* repeated on every row of that label
apply_explode(cols) ==
    LET names == DOMAIN cols
        series == [c \in names |-> Series_explode(cols[c])]
        longest(label) ==
            CHOOSE c \in names :
                \A o \in names : Len(Occurrences(series[o], label))
                                     <= Len(Occurrences(series[c], label))
        nrows == Len(cols[CHOOSE c \in names : TRUE])
        index == Flatten([i \in 1..nrows |->
                     [k \in 1..Len(Occurrences(series[longest(i)], i)) |->
                         [label |-> i, k |-> k]]])
    IN [n \in DOMAIN index |->
           [c \in names |->
               LET occ == Occurrences(series[c], index[n].label)
               IN IF Len(occ) = 1 THEN occ[1].v
                  ELSE IF index[n].k <= Len(occ) THEN occ[index[n].k].v ELSE "NaN"]]

\* the frame as columns of cells
ColumnsOf(frame) ==
    [c \in {"person_id", "riskInfo", "tax_report_data"} |->
        [i \in DOMAIN frame |->
            IF c \in scalar_cols
            THEN [listlike |-> FALSE, v |-> frame[i][c]]
            ELSE [listlike |-> TRUE, v |-> frame[i][c]]]]

\* _explode_dict_col that writes the new column into its argument
explode_dict_col_inplace(frame) ==
    LET with_col == [i \in DOMAIN frame |->
                        frame[i] @@ [tax_report_data |-> dict_values(frame[i].riskInfo)]]
        keyed == [i \in DOMAIN with_col |->
                     [with_col[i] EXCEPT !.riskInfo = dict_keys(with_col[i].riskInfo)]]
    IN [caller |-> with_col, rows |-> apply_explode(ColumnsOf(keyed))]

\* the caller's frame after the call, and the frame returned: the new
\* column is written into a copy; iterating a dict cell yields its keys
explode_dict_col(frame) ==
    LET copy == frame
        with_col == [i \in DOMAIN copy |->
                        copy[i] @@ [tax_report_data |-> dict_values(copy[i].riskInfo)]]
        keyed == [i \in DOMAIN with_col |->
                     [with_col[i] EXCEPT !.riskInfo = dict_keys(with_col[i].riskInfo)]]
    IN [caller |-> frame, rows |-> apply_explode(ColumnsOf(keyed))]

\* ---- bounded inputs: records with a riskInfo dict of zero to two years
RiskYears == {"2019", "2020"}

Payloads == {"p", "q"}

RiskInfos ==
    {<<>>}
    \cup {<<<<y, v>>>> : y \in RiskYears, v \in Payloads}
    \cup {d \in {<<<<y1, v1>>, <<y2, v2>>>> :
                      y1 \in RiskYears, y2 \in RiskYears, v1 \in Payloads, v2 \in Payloads} :
                d[1][1] # d[2][1]}

Persons == {"u1", "u2"}

BaseRecords == {[person_id |-> u, riskInfo |-> d] : u \in Persons, d \in RiskInfos}

BaseFrames == UNION {[1..n -> BaseRecords] : n \in 1..MaxRows}

NoExploded == <<[person_id |-> "unset"]>>

explodeVars == <<base_df, exploded>>
IdleExplode == base_df = NoFrame /\ exploded = NoExploded

(***************************************************************************)
(* The pipeline object: execute, step by step, and export_output.          *)
(* A frame records the inputs it was computed from, the run that computed  *)
(* it and the steps applied to it so far, by the names of the calls.       *)
(***************************************************************************)
\* the calls of execute with the merges ahead of the classification
execute_steps_merge_first ==
    <<"load_dataset", "get_json_value", "_explode_dict_col", "map_normalize_dict",
      "merge", "_get_irpf_status", "set_star_count", "_calculate_presumed_income">>

\* the calls of execute and pre_processing_pipeline, in program order
execute_steps ==
    <<"load_dataset", "get_json_value", "_explode_dict_col", "map_normalize_dict",
      "_get_irpf_status", "merge", "set_star_count", "_calculate_presumed_income">>

\* the steps that raise on some input: map_normalize_dict on a null payload
\* (a record whose riskInfo is empty), _get_irpf_status on an all-null text
\* column, _calculate_presumed_income on a year below the table or a
\* missing brand or bucket
raising_steps == {"map_normalize_dict", "_get_irpf_status", "_calculate_presumed_income"}

Datasets == {[id |-> i, raises |-> r] : i \in {"d1", "d2"}, r \in {"none"} \cup raising_steps}

\* export_output that tests for a table before anything else
export_output_guarded(ff) ==
    IF ff = PyNone
    THEN [kind |-> "return", exports |-> <<>>]
    ELSE [kind |-> "return", exports |-> <<ff>>]

\* export_output: list(None) raises before the export is reached
export_output(ff) ==
    IF ff = PyNone
    THEN [kind |-> "TypeError", exports |-> <<>>]
    ELSE [kind |-> "return", exports |-> <<ff>>]

pipelineVars == <<_base_dataframe, execute_df, feature_frame, exported, runs, outcome>>

IdlePipeline ==
    /\ _base_dataframe = PyNone
    /\ execute_df = PyNone
    /\ feature_frame = PyNone
    /\ exported = <<>>
    /\ runs = 0
    /\ outcome = "none"

(***************************************************************************)
(* The state machines: one call of each component.                         *)
(***************************************************************************)
NoStars == [stars |-> -2, lookup |-> "unset"]

Counts == (-MaxCount)..MaxCount

InitStars ==
    /\ pc = "ready"
    /\ IdleAggregate
    /\ IdleExplode
    /\ IdlePipeline
    /\ text_col = NoColumn
    /\ status = NoStatus
    /\ df_row = NoRow
    /\ presumed_income_dict = NoTable
    /\ presumed_income = NoIncome
    /\ num_declarations \in Counts
    /\ num_refunds \in Counts
    /\ stars = NoStars

RetrieveStars ==
    /\ pc = "ready"
    /\ stars' = retrieve_stars(num_declarations, num_refunds, get_star_array)
    /\ pc' = "done"
    /\ UNCHANGED <<num_declarations, num_refunds, text_col, status, df_row, presumed_income_dict, presumed_income, aggregateVars, explodeVars, pipelineVars>>

NextStars == RetrieveStars

SpecStars == InitStars /\ [][NextStars]_vars

InitStatus ==
    /\ pc = "ready"
    /\ IdleAggregate
    /\ IdleExplode
    /\ IdlePipeline
    /\ num_declarations = 0
    /\ num_refunds = 0
    /\ stars = NoStars
    /\ text_col \in Columns
    /\ status = NoStatus
    /\ df_row = NoRow
    /\ presumed_income_dict = NoTable
    /\ presumed_income = NoIncome

GetIrpfStatus ==
    /\ pc = "ready"
    /\ status' = get_irpf_status(text_col)
    /\ pc' = "done"
    /\ UNCHANGED <<num_declarations, num_refunds, stars, text_col, df_row, presumed_income_dict, presumed_income, aggregateVars, explodeVars, pipelineVars>>

NextStatus == GetIrpfStatus

SpecStatus == InitStatus /\ [][NextStatus]_vars

InitIncome ==
    /\ pc = "ready"
    /\ IdleAggregate
    /\ IdleExplode
    /\ IdlePipeline
    /\ num_declarations = 0
    /\ num_refunds = 0
    /\ stars = NoStars
    /\ text_col = NoColumn
    /\ status = NoStatus
    /\ df_row \in AggregateRows
    /\ presumed_income_dict \in Tables
    /\ presumed_income = NoIncome

CalculatePresumedIncome ==
    /\ pc = "ready"
    /\ presumed_income' = calculate_presumed_income(df_row, presumed_income_dict)
    /\ pc' = "done"
    /\ UNCHANGED <<num_declarations, num_refunds, stars, text_col, status, df_row, presumed_income_dict, aggregateVars, explodeVars, pipelineVars>>

NextIncome == CalculatePresumedIncome

SpecIncome == InitIncome /\ [][NextIncome]_vars

IdleStars == num_declarations = 0 /\ num_refunds = 0 /\ stars = NoStars
IdleStatus == text_col = NoColumn /\ status = NoStatus
IdleIncome == df_row = NoRow /\ presumed_income_dict = NoTable /\ presumed_income = NoIncome
starsVars == <<num_declarations, num_refunds, stars>>
statusVars == <<text_col, status>>
incomeVars == <<df_row, presumed_income_dict, presumed_income>>

InitAggregate ==
    /\ pc = "ready"
    /\ IdleStars
    /\ IdleStatus
    /\ IdleIncome
    /\ IdleExplode
    /\ IdlePipeline
    /\ df \in Frames
    /\ gp_estr = NoAggregate

SetStarCount ==
    /\ pc = "ready"
    /\ gp_estr' = set_star_count(df)
    /\ pc' = "done"
    /\ UNCHANGED <<starsVars, statusVars, incomeVars, explodeVars, pipelineVars, df>>

NextAggregate == SetStarCount

SpecAggregate == InitAggregate /\ [][NextAggregate]_vars

InitExplode ==
    /\ pc = "ready"
    /\ IdleStars
    /\ IdleStatus
    /\ IdleIncome
    /\ IdleAggregate
    /\ IdlePipeline
    /\ base_df \in BaseFrames
    /\ exploded = NoExploded

ExplodeDictCol ==
    /\ pc = "ready"
    /\ base_df' = explode_dict_col(base_df).caller
    /\ exploded' = explode_dict_col(base_df).rows
    /\ pc' = "done"
    /\ UNCHANGED <<starsVars, statusVars, incomeVars, aggregateVars, pipelineVars>>

NextExplode == ExplodeDictCol

SpecExplode == InitExplode /\ [][NextExplode]_vars

otherVars == <<starsVars, statusVars, incomeVars, aggregateVars, explodeVars>>

InitPipeline ==
    /\ pc = "idle"
    /\ IdleStars
    /\ IdleStatus
    /\ IdleIncome
    /\ IdleAggregate
    /\ IdleExplode
    /\ IdlePipeline

\* execute, lines 359-361: the inputs are loaded and kept on the object
Execute_Load ==
    /\ pc = "idle"
    /\ runs < MaxRuns
    /\ \E d \in Datasets :
           /\ _base_dataframe' = d
           /\ execute_df' = [inputs |-> d, run |-> runs + 1, steps |-> <<execute_steps[1]>>]
    /\ runs' = runs + 1
    /\ pc' = "execute"
    /\ outcome' = "running"
    /\ UNCHANGED <<otherVars, feature_frame, exported>>

\* the call execute makes next: the one after the steps applied so far
next_step(d) ==
    IF Len(d.steps) < Len(execute_steps) THEN execute_steps[Len(d.steps) + 1] ELSE "store"

\* one call of the chain: it raises, ending execute, or extends the frame
run_step(d, name) ==
    IF d.inputs.raises = name
    THEN [df |-> PyNone, pc |-> "idle", outcome |-> "raised"]
    ELSE [df |-> [d EXCEPT !.steps = Append(@, name)], pc |-> "execute", outcome |-> "running"]

\* pre_processing_pipeline, line 302
Execute_GetJsonValue ==
    /\ pc = "execute"
    /\ next_step(execute_df) = "get_json_value"
    /\ execute_df' = run_step(execute_df, "get_json_value").df
    /\ pc' = run_step(execute_df, "get_json_value").pc
    /\ outcome' = run_step(execute_df, "get_json_value").outcome
    /\ UNCHANGED <<otherVars, _base_dataframe, feature_frame, exported, runs>>

\* pre_processing_pipeline, line 303
Execute_Explode ==
    /\ pc = "execute"
    /\ next_step(execute_df) = "_explode_dict_col"
    /\ execute_df' = run_step(execute_df, "_explode_dict_col").df
    /\ pc' = run_step(execute_df, "_explode_dict_col").pc
    /\ outcome' = run_step(execute_df, "_explode_dict_col").outcome
    /\ UNCHANGED <<otherVars, _base_dataframe, feature_frame, exported, runs>>

\* pre_processing_pipeline, line 304
Execute_Normalize ==
    /\ pc = "execute"
    /\ next_step(execute_df) = "map_normalize_dict"
    /\ execute_df' = run_step(execute_df, "map_normalize_dict").df
    /\ pc' = run_step(execute_df, "map_normalize_dict").pc
    /\ outcome' = run_step(execute_df, "map_normalize_dict").outcome
    /\ UNCHANGED <<otherVars, _base_dataframe, feature_frame, exported, runs>>

\* pre_processing_pipeline, line 305
Execute_Classify ==
    /\ pc = "execute"
    /\ next_step(execute_df) = "_get_irpf_status"
    /\ execute_df' = run_step(execute_df, "_get_irpf_status").df
    /\ pc' = run_step(execute_df, "_get_irpf_status").pc
    /\ outcome' = run_step(execute_df, "_get_irpf_status").outcome
    /\ UNCHANGED <<otherVars, _base_dataframe, feature_frame, exported, runs>>

\* pre_processing_pipeline, lines 308-318: the three reference left-joins
Execute_Merge ==
    /\ pc = "execute"
    /\ next_step(execute_df) = "merge"
    /\ execute_df' = run_step(execute_df, "merge").df
    /\ pc' = run_step(execute_df, "merge").pc
    /\ outcome' = run_step(execute_df, "merge").outcome
    /\ UNCHANGED <<otherVars, _base_dataframe, feature_frame, exported, runs>>

\* execute, line 374
Execute_SetStarCount ==
    /\ pc = "execute"
    /\ next_step(execute_df) = "set_star_count"
    /\ execute_df' = run_step(execute_df, "set_star_count").df
    /\ pc' = run_step(execute_df, "set_star_count").pc
    /\ outcome' = run_step(execute_df, "set_star_count").outcome
    /\ UNCHANGED <<otherVars, _base_dataframe, feature_frame, exported, runs>>

\* execute, line 376
Execute_Resolve ==
    /\ pc = "execute"
    /\ next_step(execute_df) = "_calculate_presumed_income"
    /\ execute_df' = run_step(execute_df, "_calculate_presumed_income").df
    /\ pc' = run_step(execute_df, "_calculate_presumed_income").pc
    /\ outcome' = run_step(execute_df, "_calculate_presumed_income").outcome
    /\ UNCHANGED <<otherVars, _base_dataframe, feature_frame, exported, runs>>

\* execute, lines 378-382: the finished frame becomes self.feature_frame
Execute_Store ==
    /\ pc = "execute"
    /\ next_step(execute_df) = "store"
    /\ feature_frame' = execute_df
    /\ execute_df' = PyNone
    /\ pc' = "idle"
    /\ outcome' = "return"
    /\ UNCHANGED <<otherVars, _base_dataframe, exported, runs>>

ExportOutput ==
    /\ pc = "idle"
    /\ Len(exported) < MaxExports
    /\ LET out == export_output(feature_frame)
       IN /\ exported' = exported \o [j \in DOMAIN out.exports |->
                                          [table |-> out.exports[j], runs |-> runs]]
          /\ outcome' = out.kind
    /\ UNCHANGED <<otherVars, _base_dataframe, execute_df, feature_frame, runs, pc>>

NextPipeline ==
    \/ Execute_Load
    \/ Execute_GetJsonValue
    \/ Execute_Explode
    \/ Execute_Normalize
    \/ Execute_Classify
    \/ Execute_Merge
    \/ Execute_SetStarCount
    \/ Execute_Resolve
    \/ Execute_Store
    \/ ExportOutput

SpecPipeline == InitPipeline /\ [][NextPipeline]_vars

(***************************************************************************)
(* Properties of the star rating (checked under SpecStars).                *)
(***************************************************************************)
\* C1: for every declaration count d >= 16 and every refund count r
\* (r > d, r >= 16 and negative r included) the rating is 5 and the table
\* is not indexed.
C1_Saturation ==
    (pc = "done" /\ num_declarations >= 16)
        => (stars.stars = 5 /\ stars.lookup = "none")

C1_Witness ==
    /\ pc = "done"
    /\ num_declarations = 16
    /\ num_refunds < 0
    /\ stars.stars = 5

\* C2 (as claimed): for d < 16, an index outside 0..15 (negative indices
\* included) gives the sentinel -1; for 0 <= d <= 15 a padded cell
\* (d < r <= 15) gives -1 and a real cell (0 <= r <= d) a value in 0..5.
C2_OutOfRangeSentinel ==
    (pc = "done" /\ num_declarations < 16)
        => /\ (num_declarations \notin 0..15 \/ num_refunds \notin 0..15)
                  => stars.stars = -1
           /\ (num_declarations \in 0..15 /\ num_declarations < num_refunds
                  /\ num_refunds <= 15) => stars.stars = -1
           /\ (num_declarations \in 0..15 /\ num_refunds \in 0..num_declarations)
                  => stars.stars \in 0..5

\* C3: inside the real table the rating does not decrease with the refund
\* count: for 0 <= r1 <= r2 <= d <= 15, rating(d, r1) <= rating(d, r2)
\* (r2 is the refund count of the call, r1 any smaller count).
C3_MonotoneInRefunds ==
    (pc = "done" /\ num_declarations \in 0..15 /\ num_refunds \in 0..num_declarations)
        => \A r1 \in 0..num_refunds :
               retrieve_stars(num_declarations, r1, get_star_array).stars <= stars.stars

C3_Witness ==
    /\ pc = "done"
    /\ num_declarations = 7
    /\ num_refunds = 7
    /\ stars.stars = 5
    /\ retrieve_stars(7, 0, get_star_array).stars = 2

(***************************************************************************)
(* Properties of the status classifier (checked under SpecStatus).         *)
(***************************************************************************)
IsFlag(v) == v \in {0, 1}

\* C4: on every classified row (any text, empty and null included)
\* irpf_tax_to_pay = 1 iff the other three flags are 0; every flag is 0 or
\* 1 and at least one of the four is 1.
C4_TaxToPayIsNor ==
    (pc = "done" /\ status.kind = "return")
        => \A i \in DOMAIN status.rows :
               LET f == status.rows[i] IN
               /\ IsFlag(f.irpf_extraction_error) /\ IsFlag(f.irpf_not_declared)
               /\ IsFlag(f.irpf_tax_refund) /\ IsFlag(f.irpf_tax_to_pay)
               /\ (f.irpf_tax_to_pay = 1) <=>
                      (f.irpf_extraction_error = 0 /\ f.irpf_not_declared = 0
                          /\ f.irpf_tax_refund = 0)
               /\ 1 \in {f.irpf_extraction_error, f.irpf_not_declared,
                         f.irpf_tax_refund, f.irpf_tax_to_pay}

C4_Witness ==
    /\ pc = "done"
    /\ status.kind = "return"
    /\ \E i, j \in DOMAIN status.rows :
           /\ status.rows[i].irpf_tax_to_pay = 1
           /\ status.rows[j].irpf_tax_to_pay = 0
           /\ status.rows[j].irpf_not_declared = 1
           /\ status.rows[j].irpf_tax_refund = 1

IsBlank(cell) == ~cell.isna /\ \A m \in DOMAIN cell.s : IsSpace(cell.s[m])

\* C6: an empty or whitespace-only text is an extraction error only:
\* error 1, not_declared 0, tax_refund 0, tax_to_pay 0.
C6_BlankIsExtractionError ==
    (pc = "done" /\ status.kind = "return")
        => \A i \in DOMAIN status.rows :
               IsBlank(text_col.values[i])
                   => status.rows[i] = [irpf_extraction_error |-> 1,
                                        irpf_not_declared |-> 0,
                                        irpf_tax_refund |-> 0,
                                        irpf_tax_to_pay |-> 0]

C6_Witness ==
    /\ pc = "done"
    /\ status.kind = "return"
    /\ \E i, j \in DOMAIN status.rows :
           /\ text_col.values[i].s = <<>> /\ ~text_col.values[i].isna
           /\ text_col.values[j].s = <<" ", "\n">>
           /\ status.rows[i].irpf_extraction_error = 1
           /\ status.rows[j].irpf_extraction_error = 1

(***************************************************************************)
(* Properties of the resolver (checked under SpecIncome).                  *)
(***************************************************************************)
\* the year keys of the table, as the ints of year_list
YearKeys == {py_int(k).v : k \in DOMAIN presumed_income_dict}
KeysUpTo(year) == {k \in YearKeys : k <= year}

\* C7: when some year key <= year exists, the year bucket used is the
\* greatest year key <= year (the year itself when it is a key, never a
\* later year).
C7_YearBucket ==
    (pc = "done" /\ KeysUpTo(df_row.year) # {})
        => \E k \in KeysUpTo(df_row.year) :
               /\ \A other \in KeysUpTo(df_row.year) : other <= k
               /\ presumed_income.kind # "ValueError"
               /\ presumed_income.year_d \in DOMAIN presumed_income_dict
               /\ py_int(presumed_income.year_d).v = k

C7_Witness ==
    /\ pc = "done"
    /\ YearKeys = {2018, 2020}
    /\ df_row.year = 2019
    /\ presumed_income.kind = "return"
    /\ presumed_income.year_d = <<"2", "0", "1", "8">>

\* C8 (as claimed): when no year key is <= year (no year key at all
\* included) the resolver fails with an error of the LookupError class.
C8_FailsWithLookupError ==
    (pc = "done" /\ KeysUpTo(df_row.year) = {})
        => presumed_income.kind \in {"LookupError", "KeyError", "IndexError"}

\* C8 (amended): when no year key is <= year (no year key at all included)
\* the resolver fails with ValueError, which is not of the LookupError
\* class; it returns no value, looks nothing up and builds no candidate.
C8_FailsWithValueError ==
    (pc = "done" /\ KeysUpTo(df_row.year) = {})
        => /\ presumed_income.kind = "ValueError"
           /\ presumed_income.value = PyNone
           /\ presumed_income.lookups = <<>>
           /\ presumed_income.candidates = {}

C8_Witness ==
    /\ pc = "done"
    /\ YearKeys = {2018, 2020}
    /\ df_row.year = 2017
    /\ presumed_income.kind = "ValueError"

\* C9: a brand whose count v exceeds 7 is looked up under bucket "7", never
\* under str(v); a brand with 0 <= v <= 7 is looked up under str(v); when
\* the loop of step 2 completes every brand has been looked up once.
C9_BucketClamping ==
    pc = "done"
        => /\ \A j \in DOMAIN presumed_income.lookups :
                  LET l == presumed_income.lookups[j]
                      v == df_row[l.brand]
                  IN /\ l.brand = branch_codes[j]
                     /\ v > 7 => l.bucket = <<"7">>
                     /\ v \in 0..7 => l.bucket = <<Digits[v + 1]>>
           /\ presumed_income.kind \in {"return", "TypeError"}
                  => Len(presumed_income.lookups) = Len(branch_codes)

C9_Witness ==
    /\ pc = "done"
    /\ df_row.HSBC = MaxBrandCount
    /\ df_row.PRIV = 7
    /\ presumed_income.kind = "return"
    /\ presumed_income.lookups[6] = [brand |-> "HSBC", bucket |-> <<"7">>]
    /\ presumed_income.lookups[10] = [brand |-> "PRIV", bucket |-> <<"7">>]

\* the candidate set of a completed call, read off the table: the values of
\* step 2 under the buckets looked up, and the declared-branch value of
\* step 3 (0 when the branch or its bucket "1" is absent) when ESTR > 0
Step2Candidates ==
    LET t == presumed_income_dict[presumed_income.year_d]
    IN {IF l.bucket \in DOMAIN t[l.brand] THEN t[l.brand][l.bucket] ELSE PyNone :
            l \in {presumed_income.lookups[j] : j \in DOMAIN presumed_income.lookups}}

Step3Candidates ==
    LET t == presumed_income_dict[presumed_income.year_d]
        bp == df_row.branch_code_pl
    IN IF df_row.ESTR > 0
       THEN {IF bp \in DOMAIN t /\ <<"1">> \in DOMAIN t[bp] THEN t[bp][<<"1">>] ELSE Num(0)}
       ELSE {}

\* C10: whenever the resolver returns, the value returned is a member of
\* the candidate set and no member of the set is greater.
C10_MaxOfCandidates ==
    (pc = "done" /\ presumed_income.kind = "return")
        => /\ presumed_income.value \in Step2Candidates \cup Step3Candidates
           /\ \A c \in Step2Candidates \cup Step3Candidates :
                  \/ c = presumed_income.value
                  \/ (c.t = "num" /\ presumed_income.value.t = "num"
                         /\ c.v <= presumed_income.value.v)

C10_Witness ==
    /\ pc = "done"
    /\ presumed_income.kind = "return"
    /\ df_row.ESTR = 1
    /\ presumed_income.value \in Step3Candidates
    /\ presumed_income.value \notin Step2Candidates
    /\ Cardinality(Step2Candidates) > 1

LoopCompleted == pc = "done" /\ presumed_income.kind \in {"return", "TypeError"}

\* the declared branch, or its bucket "1", is absent from the year bucket
DeclaredBranchAbsent ==
    LET t == presumed_income_dict[presumed_income.year_d]
        bp == df_row.branch_code_pl
    IN bp \notin DOMAIN t \/ <<"1">> \notin DOMAIN t[bp]

\* C11: the declared-branch value table[year_bucket][declared_branch]["1"]
\* is a candidate iff ESTR > 0; when the declared branch is null or unknown
\* or has no bucket "1" the candidate added is 0 and the resolver does not
\* fail because of it; when ESTR <= 0 the declared branch does not change
\* the outcome.
C11_DeclaredBranchCandidate ==
    /\ LoopCompleted
           => /\ presumed_income.candidates = Step2Candidates \cup Step3Candidates
              /\ (df_row.ESTR > 0 /\ DeclaredBranchAbsent)
                     => /\ Num(0) \in presumed_income.candidates
                        /\ PyNone \notin Step2Candidates
                               => presumed_income.kind = "return"
    /\ (pc = "done" /\ df_row.ESTR <= 0)
           => \A bp \in DeclaredBranches :
                  calculate_presumed_income([df_row EXCEPT !.branch_code_pl = bp],
                                            presumed_income_dict) = presumed_income

C11_Witness ==
    /\ LoopCompleted
    /\ presumed_income.kind = "return"
    /\ df_row.ESTR = 1
    /\ df_row.branch_code_pl = "PERS"
    /\ DeclaredBranchAbsent
    /\ Num(0) \in presumed_income.candidates
    /\ Num(0) \notin Step2Candidates

\* a step-2 lookup of the row misses: no year bucket, or a brand or its
\* value bucket absent from the year bucket
Step2Misses ==
    \/ KeysUpTo(df_row.year) = {}
    \/ LET yk == CHOOSE k \in KeysUpTo(df_row.year) : \A o \in KeysUpTo(df_row.year) : o <= k
           t == presumed_income_dict[py_str(yk)]
       IN \E j \in DOMAIN branch_codes :
              LET b == branch_codes[j]
                  v == df_row[b]
                  bucket == IF v > 7 THEN <<"7">> ELSE py_str(v)
              IN b \notin DOMAIN t \/ bucket \notin DOMAIN t[b]

\* C12 (as claimed): when a step-2 lookup hits a missing year, brand or
\* bucket the resolver fails for that row: it does not return (neither None
\* nor a default), and None is never among the candidates handed to max.
C12_MissingLookupIsFatal ==
    (pc = "done" /\ Step2Misses)
        => /\ presumed_income.kind # "return"
           /\ LoopCompleted => PyNone \notin presumed_income.candidates

\* C19 (as claimed): every innermost key looked up in step 2 is one of the
\* strings "0".."7", for every brand count and every ESTR in -1..5.
C19_BucketKeysInRange ==
    pc = "done"
        => \A j \in DOMAIN presumed_income.lookups :
               presumed_income.lookups[j].bucket \in {<<Digits[k + 1]>> : k \in 0..7}

\* the indices of the rows of df that belong to a group
GroupRows(key) == {i \in DOMAIN df : KeyOf(df[i]) = key}

\* the rows of the aggregate for a group
AggregateOf(key) == {g \in DOMAIN gp_estr : KeyOf(gp_estr[g]) = key}

\* C13: for each (applicant, timestamp) group, number_declaration is the
\* number of classified rows of the group, number_tax_refund the number of
\* them whose refund flag is 1, and ESTR the star rating of the two; two
\* rows of one group with the texts "" and "reagendada para crédito no
\* banco" give number_declaration 2 and number_tax_refund 1.
C13_GroupCounts ==
    pc = "done"
        => /\ \A i \in DOMAIN df : AggregateOf(KeyOf(df[i])) # {}
           /\ \A g \in DOMAIN gp_estr :
                  LET a == gp_estr[g]
                      rows == GroupRows(KeyOf(a))
                      refunded == {i \in rows : df[i].irpf_tax_refund = 1}
                  IN /\ rows # {}
                     /\ a.number_declaration = Cardinality(rows)
                     /\ a.number_tax_refund = Cardinality(refunded)
                     /\ a.ESTR = base_arr[Cardinality(rows) + 1][Cardinality(refunded) + 1]
                     /\ ({df[i].full_status_text : i \in rows}
                             = {[isna |-> FALSE, s |-> <<>>], [isna |-> FALSE, s |-> RefundText]}
                         /\ Cardinality(rows) = 2)
                            => (a.number_declaration = 2 /\ a.number_tax_refund = 1)

C13_Witness ==
    /\ pc = "done"
    /\ Len(df) = 2
    /\ KeyOf(df[1]) = <<11, 20200101>>
    /\ KeyOf(df[2]) = <<11, 20200101>>
    /\ df[1].full_status_text = [isna |-> FALSE, s |-> <<>>]
    /\ df[2].full_status_text = [isna |-> FALSE, s |-> RefundText]
    /\ df[1].irpf_tax_refund = 0
    /\ df[2].irpf_tax_refund = 1
    /\ gp_estr[1].number_declaration = 2
    /\ gp_estr[1].number_tax_refund = 1
    /\ gp_estr[1].ESTR = 1

\* the declared branch codes of a group, and the one on its first row
DeclaredOf(key) == {df[i].branch_code_pl : i \in GroupRows(key)}

FirstDeclaredOf(key) ==
    df[CHOOSE i \in GroupRows(key) : \A j \in GroupRows(key) : i <= j].branch_code_pl

\* C14 (as claimed): the aggregate has exactly one row per group, carrying
\* the group's branch_code_pl; when the group has more than one distinct
\* branch_code_pl the first is kept and the others are discarded, with no
\* extra row.
C14_OneRowPerGroup ==
    pc = "done"
        => \A i \in DOMAIN df :
               /\ Cardinality(AggregateOf(KeyOf(df[i]))) = 1
               /\ \A g \in AggregateOf(KeyOf(df[i])) :
                      gp_estr[g].branch_code_pl = FirstDeclaredOf(KeyOf(df[i]))

\* C15: each brand column of a group's aggregate row is the number of the
\* group's rows with that branch_code; a row whose branch_code is null or
\* not one of the nine brands adds to no brand column, still counts in
\* number_declaration, and its group is still in the aggregate.
C15_BrandCounts ==
    pc = "done"
        => /\ \A i \in DOMAIN df : AggregateOf(KeyOf(df[i])) # {}
           /\ \A g \in DOMAIN gp_estr :
                  LET a == gp_estr[g]
                      rows == GroupRows(KeyOf(a))
                      known == {i \in rows :
                                   \E j \in DOMAIN branch_categories :
                                       df[i].branch_code = branch_categories[j]}
                  IN /\ \A j \in DOMAIN branch_categories :
                            a[branch_categories[j]] =
                                Cardinality({i \in rows : df[i].branch_code = branch_categories[j]})
                     /\ a.number_declaration = Cardinality(rows)
                     /\ a.PERS + a.STIL + a.PRIM + a.OUTR + a.HSBC + a.VANG
                            + a.UNIC + a.ESPA + a.PRIV = Cardinality(known)

C15_Witness ==
    /\ pc = "done"
    /\ Len(df) = 2
    /\ KeyOf(df[1]) = KeyOf(df[2])
    /\ df[1].branch_code = "XXXX"
    /\ df[2].branch_code = "HSBC"
    /\ Len(gp_estr) >= 1
    /\ gp_estr[1].HSBC = 1
    /\ gp_estr[1].PRIV = 0
    /\ gp_estr[1].number_declaration = 2

\* C20: in every aggregate row number_tax_refund <= number_declaration, so
\* the star lookup reads a real cell of the table (or saturates) and ESTR
\* is in 0..5: the pipeline never produces the sentinel -1.
C20_RefundsAtMostDeclarations ==
    pc = "done"
        => \A g \in DOMAIN gp_estr :
               LET a == gp_estr[g]
                   looked == retrieve_stars(a.number_declaration, a.number_tax_refund,
                                            get_star_array)
               IN /\ a.number_tax_refund <= a.number_declaration
                  /\ a.number_tax_refund >= 0
                  /\ \/ a.number_declaration >= 16
                     \/ /\ looked.lookup = "hit"
                        /\ a.number_declaration \in 0..(Len(base_arr) - 1)
                        /\ a.number_tax_refund + 1 \in DOMAIN base_arr[a.number_declaration + 1]
                  /\ a.ESTR \in 0..5

C20_Witness ==
    /\ pc = "done"
    /\ Len(df) = 2
    /\ KeyOf(df[1]) = KeyOf(df[2])
    /\ df[1].irpf_tax_refund = 1
    /\ df[2].irpf_tax_refund = 1
    /\ gp_estr[1].number_tax_refund = 2
    /\ gp_estr[1].number_declaration = 2
    /\ gp_estr[1].ESTR = 1

\* the number of rows a record explodes into, and the rows before a record
RowsFor(i) == IF Len(base_df[i].riskInfo) = 0 THEN 1 ELSE Len(base_df[i].riskInfo)

RECURSIVE Offset(_)
Offset(i) == IF i = 1 THEN 0 ELSE Offset(i - 1) + RowsFor(i - 1)

\* C18: a record whose riskInfo has n >= 1 entries yields exactly n rows,
\* each pairing the year key with the payload of the same entry and
\* repeating the record's other fields; no entry is lost, duplicated or
\* paired with another entry's payload; the input table is unchanged.
C18_ExplodePairsEntries ==
    /\ base_df = NoFrame \/ base_df \in BaseFrames
    /\ pc = "done" /\ base_df # NoFrame
           => /\ Len(exploded) = Offset(Len(base_df)) + RowsFor(Len(base_df))
              /\ \A i \in DOMAIN base_df :
                     LET d == base_df[i].riskInfo
                         block == (Offset(i) + 1)..(Offset(i) + Len(d))
                     IN Len(d) >= 1
                            => /\ \A n \in block : exploded[n].person_id = base_df[i].person_id
                               /\ \A j \in DOMAIN d :
                                      Cardinality({n \in block :
                                          /\ exploded[n].riskInfo = d[j][1]
                                          /\ exploded[n].tax_report_data = d[j][2]}) = 1

C18_Witness ==
    /\ pc = "done"
    /\ Len(base_df) = 2
    /\ base_df[1].riskInfo = <<<<"2020", "p">>, <<"2019", "q">>>>
    /\ base_df[2].riskInfo = <<<<"2019", "p">>>>
    /\ base_df[1].person_id = "u1"
    /\ base_df[2].person_id = "u2"
    /\ Len(exploded) = 3
    /\ exploded[2] = [person_id |-> "u1", riskInfo |-> "2019", tax_report_data |-> "q"]
    /\ exploded[3] = [person_id |-> "u2", riskInfo |-> "2019", tax_report_data |-> "p"]

\* seq is an initial part of order
IsPrefix(seq, order) == Len(seq) <= Len(order) /\ seq = SubSeq(order, 1, Len(seq))

After(seq, a, b) ==
    \A i \in DOMAIN seq : seq[i] = a => \E j \in 1..(i - 1) : seq[j] = b

C17_NoStaleExport ==
    \A j \in DOMAIN exported :
        /\ exported[j].table # PyNone
        /\ exported[j].table.run = exported[j].runs

=============================================================================
